---------------------------- MODULE Spec2Model ----------------------------
(***************************************************************************)
(* A model of liyee/gtcp: the LTV little-endian decoder interceptor        *)
(* (gdecoder/ltvdecoder_little.go), the copy of a user configuration into  *)
(* the global one (gconf, UserConfToGlobal), the prelude middlewares       *)
(* RouterRecovery and RouterTime (gnet) and the client (gnet/client.go).   *)
(*                                                                         *)
(* Each part has its own specification over the module's variables; the    *)
(* variables of the other parts stay at their initial values.              *)
(***************************************************************************)
EXTENDS Integers, Sequences, FiniteSets, TLC

VARIABLES
    \* ---- LTV decoder interceptor (one call of Intercept)
    pcI,          \* "ready" before the call, "done" after it
    chainMsg,     \* chain.GetIMessage(): <<>> for nil, <<m>> for a message
    proceeded,    \* the calls of chain.ProceedWithIMessage: <<>> or <<[msg, payload]>>
    ltvPanic,     \* the call ended in a run-time panic
    \* ---- gconf
    GlobalObject, \* gconf.GlobalObject, the process-wide configuration
    pcConf,       \* "ready" before the call of UserConfToGlobal, "done" after
                  \* it, "twice" after a second call with the same config
    userConf,     \* the *Config the call is given
    glogLevel,    \* the level glog.SetLogLevel was last given, <<>> before any call
    glogFile,     \* the <<dir, file>> glog.SetLogFile was last given, <<>> before any call
    \* ---- a connection's reader with the LTV length field, on lengths alone
    sentL,        \* the length L in the header of the frame the peer sends
    buffered,     \* the number of bytes in the framer's buffer
    frameErr,     \* <<>>, or <<e>> for the error e the framer failed with
    emitted,      \* the lengths of the frames the framer emitted
    ltvReads,     \* per emitted frame: what the decoder read of it
    dispatched,   \* the number of messages passed on to the next interceptor
    \* ---- the router in middleware-slice style, with the recovery and timer prelude
    handled,      \* per connection: the messages whose handler chain returned normally
    lastRun,      \* <<>>, or <<r>> for the last dispatch's input and result
    glogErrors,   \* the entries RouterRecovery logged with glog.Ins().ErrorF
    crashed,      \* a panic left the handler chain unrecovered
    \* ---- the client (gnet/client.go) with its caller and the goroutines of Restart
    frozen,       \* the server's Start() has run: the configuration is frozen
    decoder,      \* c.decoder: <<>> for nil, <<d>> for a decoder
    interceptors, \* the interceptors added to c.msgHandler, in order
    apis,         \* the routes of c.msgHandler: msg id -> <<>> or <<router>>
    hc,           \* c.hc: <<>> for nil, or <<checker>>: [id, msgID, router, conn]
    checkersMade, \* the number of heartbeat checkers made so far
    conn,         \* c.conn: 0 for nil, or the index of a connection
    conns,        \* the connections made so far: [started, stopped]
    exitChan,     \* c.exitChan: 0 for nil, or the number of a channel
    closed,       \* the exit channels that are closed
    errClosed,    \* c.ErrChan is closed
    gos,          \* the goroutines of Restart: [pc, ch]; pc is "failed" after the
                  \* error was received from ErrChan, "exited" after the exit signal
    mainPc,       \* where the caller is: "idle", or inside Stop
    clientPanic   \* <<>>, or <<reason>> once a goroutine of the process panicked

ltvVars == <<pcI, chainMsg, proceeded, ltvPanic>>

confVars == <<pcConf, userConf, glogLevel, glogFile>>

frameVars == <<sentL, buffered, frameErr, emitted, ltvReads, dispatched>>

routerVars == <<handled, lastRun, glogErrors, crashed>>

clientVars == <<frozen, decoder, interceptors, apis, hc, checkersMade, conn, conns,
                exitChan, closed, errClosed, gos, mainPc, clientPanic>>

vars == <<pcI, chainMsg, proceeded, ltvPanic,
          GlobalObject, pcConf, userConf, glogLevel, glogFile,
          sentL, buffered, frameErr, emitted, ltvReads, dispatched,
          handled, lastRun, glogErrors, crashed,
          frozen, decoder, interceptors, apis, hc, checkersMade, conn, conns,
          exitChan, closed, errClosed, gos, mainPc, clientPanic>>

---------------------------------------------------------------------------
(* Unsigned integers wider than the checker's 32-bit integers.  A number   *)
(* is a pair <<hi, lo>> that stands for hi * 2^16 + lo, 0 <= lo < 2^16.    *)
(* Go's uint32 is a pair with hi < 2^16; int64/uint64 values (the framer's *)
(* lengths) let hi grow.                                                   *)

Half == 256 * 256

\* The number n, for an n that the checker's integers hold.
U(n) == <<n \div Half, n % Half>>

\* The value of a number known to be small.
ToInt(a) == a[1] * Half + a[2]

WAdd(a, b) ==
    LET lo == a[2] + b[2]
    IN  <<a[1] + b[1] + (lo \div Half), lo % Half>>

WLt(a, b) == a[1] < b[1] \/ (a[1] = b[1] /\ a[2] < b[2])

WLe(a, b) == a = b \/ WLt(a, b)

\* Conversion to uint32: the value modulo 2^32.
Wrap32(a) == <<a[1] % Half, a[2]>>

\* math.MaxUint32
MaxUint32 == <<Half - 1, Half - 1>>

\* binary.LittleEndian.Uint32(b) for a slice b of 4 bytes.
LittleEndianUint32(b) == <<b[4] * 256 + b[3], b[2] * 256 + b[1]>>

---------------------------------------------------------------------------
(* Go slices of bytes.  A slice is [bytes, spare]: the len(s) bytes of s   *)
(* and the bytes of the backing array between len(s) and cap(s), which a   *)
(* reslice s[lo:hi] with hi > len(s) exposes.                              *)

GoLen(s) == Len(s.bytes)

GoCap(s) == Len(s.bytes) + Len(s.spare)

\* s[lo:hi] is legal when 0 <= lo <= hi <= cap(s); lo is a small constant,
\* hi a uint32, cap the capacity of s.
SliceOK(cap, lo, hi) == WLe(U(lo), hi) /\ WLe(hi, cap)

\* The bytes of s[lo:hi], for a legal reslice.
SliceBytes(s, lo, hi) == SubSeq(s.bytes \o s.spare, lo + 1, ToInt(hi))

---------------------------------------------------------------------------
(* gdecoder/ltvdecoder_little.go                                           *)

LTV_HEADER_SIZE == 8

\* The upper index of data[8 : 8+ltvData.Length]: the sum is a uint32.
ValueEnd(Length) == Wrap32(WAdd(U(8), Length))

\* decode with the tag read at the offset of the length (bytes 0..3).
decode_TagAtLengthOffset(data) ==
    LET Length == LittleEndianUint32(SubSeq(data.bytes, 1, 4))
        Tag    == LittleEndianUint32(SubSeq(data.bytes, 1, 4))
        hi     == ValueEnd(Length)
    IN  IF SliceOK(U(GoCap(data)), 8, hi)
        THEN [panic |-> FALSE, Length |-> Length, Tag |-> Tag,
              Value |-> SliceBytes(data, 8, hi)]
        ELSE [panic |-> TRUE, Length |-> Length, Tag |-> Tag, Value |-> <<>>]

\* LTV_Little_Decoder.decode(data), for len(data) >= 8: the decoded
\* {Length, Tag, Value}, or a panic when 8+Length is no legal upper index.
decode(data) ==
    LET Length == LittleEndianUint32(SubSeq(data.bytes, 1, 4))
        Tag    == LittleEndianUint32(SubSeq(data.bytes, 5, 8))
        hi     == ValueEnd(Length)
    IN  IF SliceOK(U(GoCap(data)), 8, hi)
        THEN [panic |-> FALSE, Length |-> Length, Tag |-> Tag,
              Value |-> SliceBytes(data, 8, hi)]
        ELSE [panic |-> TRUE, Length |-> Length, Tag |-> Tag, Value |-> <<>>]

\* LTV_Little_Decoder.Intercept(chain), as a function of chain.GetIMessage():
\* what it hands to chain.ProceedWithIMessage, and whether it panics.
InterceptResult(iMessage) ==
    IF iMessage = <<>>
    THEN [panic |-> FALSE, calls |-> <<[msg |-> <<>>, payload |-> <<>>]>>]
    ELSE LET m == iMessage[1]
         IN  IF GoLen(m.data) < LTV_HEADER_SIZE
             THEN [panic |-> FALSE,
                   calls |-> <<[msg |-> iMessage, payload |-> <<>>]>>]
             ELSE LET ltvData == decode(m.data)
                  IN  IF ltvData.panic
                      THEN [panic |-> TRUE, calls |-> <<>>]
                      ELSE [panic |-> FALSE,
                            calls |-> <<[msg |-> <<[id      |-> ltvData.Tag,
                                                    dataLen |-> ltvData.Length,
                                                    data    |-> [bytes |-> ltvData.Value,
                                                                 spare |-> <<>>]]>>,
                                         payload |-> <<[Length |-> ltvData.Length,
                                                        Tag    |-> ltvData.Tag,
                                                        Value  |-> ltvData.Value]>>]>>]

\* ---- the inputs of the interceptor
MaxDataLen == 9
MaxSpare == 1

ByteVals == {0, 1, 255}

\* The spec's example frame: 05 00 00 00 01 00 00 00 'HELLO'.
HelloFrame == <<5, 0, 0, 0, 1, 0, 0, 0, 72, 69, 76, 76, 79>>

\* A message as the reader or an earlier interceptor may hand it over: data
\* b with sp spare bytes of capacity, and a data length dl.
InputMessage(b, sp, dl) ==
    [id |-> U(0), dataLen |-> dl, data |-> [bytes |-> b, spare |-> sp]]

InitLTVIdle ==
    /\ pcI = "ready"
    /\ chainMsg = <<>>
    /\ proceeded = <<>>
    /\ ltvPanic = FALSE

\* The interceptor is handed nil, or a message whose data is any sequence of
\* at most MaxDataLen bytes (or the example frame), whose data length is
\* len(data) or still unset (0).
InitLTV ==
    /\ pcI = "ready"
    /\ \/ chainMsg = <<>>
       \/ \E k \in 0..MaxDataLen : \E b \in [1..k -> ByteVals] :
          \E n \in 0..MaxSpare : \E sp \in [1..n -> {255}] :
          \E dl \in {U(0), U(k)} :
              chainMsg = <<InputMessage(b, sp, dl)>>
       \/ \E dl \in {U(0), U(Len(HelloFrame))} :
              chainMsg = <<InputMessage(HelloFrame, <<>>, dl)>>
    /\ proceeded = <<>>
    /\ ltvPanic = FALSE

Intercept ==
    /\ pcI = "ready"
    /\ LET r == InterceptResult(chainMsg)
       IN  /\ proceeded' = r.calls
           /\ ltvPanic' = r.panic
    /\ pcI' = "done"
    /\ UNCHANGED chainMsg


---------------------------------------------------------------------------
(* gconf: UserConfToGlobal                                                 *)

StrFields ==
    {"Name", "Host", "Version", "WorkerMode", "LogDir", "LogFile",
     "CertFile", "PrivateKeyFile", "Mode"}

IntFields ==
    {"TcpPort", "MaxPacketSize", "MaxConn", "WorkerPoolSize", "MaxWorkerTaskLen",
     "MaxMsgChanLen", "IOReadBuffSize", "LogIsolationLevel", "HeartbeatMax",
     "WsPort", "KcpPort", "KcpNoDelay", "KcpInterval", "KcpResend", "KcpNc",
     "KcpSendWindow", "KcpRecvWindow", "KcpFecDataShards", "KcpFecParityShards"}

BoolFields == {"RouterSlicesMode", "RequestPoolMode", "KcpACKNoDelay", "KcpStreamMode"}

Fields == StrFields \cup IntFields \cup BoolFields

\* Go's zero value of a field.
Zero(f) == IF f \in StrFields THEN "" ELSE IF f \in IntFields THEN 0 ELSE FALSE

\* glog.LogDebug, the lowest log level.
LogDebug == 0

\* The fields of gconf.GlobalObject after UserConfToGlobal(config), g being
\* their values before.
UserConfToGlobalFields(g, config) ==
    [Name             |-> IF config.Name # "" THEN config.Name ELSE g.Name,
     Host             |-> IF config.Host # "" THEN config.Host ELSE g.Host,
     TcpPort          |-> IF config.TcpPort # 0 THEN config.TcpPort ELSE g.TcpPort,
     Version          |-> IF config.Version # "" THEN config.Version ELSE g.Version,
     MaxPacketSize    |-> IF config.MaxPacketSize # 0
                          THEN config.MaxPacketSize ELSE g.MaxPacketSize,
     MaxConn          |-> IF config.MaxConn # 0 THEN config.MaxConn ELSE g.MaxConn,
     WorkerPoolSize   |-> IF config.WorkerPoolSize # 0
                          THEN config.WorkerPoolSize ELSE g.WorkerPoolSize,
     MaxWorkerTaskLen |-> IF config.MaxWorkerTaskLen # 0
                          THEN config.MaxWorkerTaskLen ELSE g.MaxWorkerTaskLen,
     WorkerMode       |-> IF config.WorkerMode # "" THEN config.WorkerMode ELSE g.WorkerMode,
     MaxMsgChanLen    |-> IF config.MaxMsgChanLen # 0
                          THEN config.MaxMsgChanLen ELSE g.MaxMsgChanLen,
     IOReadBuffSize   |-> IF config.IOReadBuffSize # 0
                          THEN config.IOReadBuffSize ELSE g.IOReadBuffSize,
     LogIsolationLevel |-> config.LogIsolationLevel,
     LogDir           |-> IF config.LogDir # "" THEN config.LogDir ELSE g.LogDir,
     LogFile          |-> IF config.LogFile # "" THEN config.LogFile ELSE g.LogFile,
     HeartbeatMax     |-> IF config.HeartbeatMax # 0
                          THEN config.HeartbeatMax ELSE g.HeartbeatMax,
     CertFile         |-> IF config.CertFile # "" THEN config.CertFile ELSE g.CertFile,
     PrivateKeyFile   |-> IF config.PrivateKeyFile # ""
                          THEN config.PrivateKeyFile ELSE g.PrivateKeyFile,
     Mode             |-> IF config.Mode # "" THEN config.Mode ELSE g.Mode,
     WsPort           |-> IF config.WsPort # 0 THEN config.WsPort ELSE g.WsPort,
     RouterSlicesMode |-> IF config.RouterSlicesMode
                          THEN config.RouterSlicesMode ELSE g.RouterSlicesMode,
     RequestPoolMode  |-> IF config.RequestPoolMode
                          THEN config.RequestPoolMode ELSE g.RequestPoolMode,
     KcpPort          |-> IF config.KcpPort # 0 THEN config.KcpPort ELSE g.KcpPort,
     KcpACKNoDelay    |-> IF config.KcpACKNoDelay
                          THEN config.KcpACKNoDelay ELSE g.KcpACKNoDelay,
     KcpStreamMode    |-> IF ~config.KcpStreamMode
                          THEN config.KcpStreamMode ELSE g.KcpStreamMode,
     KcpNoDelay       |-> IF config.KcpNoDelay # 0 THEN config.KcpNoDelay ELSE g.KcpNoDelay,
     KcpInterval      |-> IF config.KcpInterval # 0 THEN config.KcpInterval ELSE g.KcpInterval,
     KcpResend        |-> IF config.KcpResend # 0 THEN config.KcpResend ELSE g.KcpResend,
     KcpNc            |-> IF config.KcpNc # 0 THEN config.KcpNc ELSE g.KcpNc,
     KcpSendWindow    |-> IF config.KcpSendWindow # 0
                          THEN config.KcpSendWindow ELSE g.KcpSendWindow,
     KcpRecvWindow    |-> IF config.KcpRecvWindow # 0
                          THEN config.KcpRecvWindow ELSE g.KcpRecvWindow,
     KcpFecDataShards |-> IF config.KcpFecDataShards # 0
                          THEN config.KcpFecDataShards ELSE g.KcpFecDataShards,
     KcpFecParityShards |-> IF config.KcpFecParityShards # 0
                            THEN config.KcpFecParityShards ELSE g.KcpFecParityShards]

\* ---- the inputs: configurations with a bounded number of fields set
MaxUserFields == 2

RECURSIVE SubsetsUpTo(_, _)
SubsetsUpTo(S, k) ==
    IF k = 0 THEN {{}}
    ELSE LET P == SubsetsUpTo(S, k - 1)
         IN  P \cup {s \cup {f} : s \in P, f \in S}

\* The value a user sets a field to, and the value a field set in the global
\* configuration holds before the call.
UserValue(f) == IF f \in StrFields THEN "user" ELSE IF f \in IntFields THEN 1 ELSE TRUE

GlobalValue(f) == IF f \in StrFields THEN "global" ELSE IF f \in IntFields THEN 2 ELSE TRUE

ConfigWith(S, Val(_)) == [f \in Fields |-> IF f \in S THEN Val(f) ELSE Zero(f)]

\* The global configuration before the call: no field set, every field set,
\* one field set, or every field but one set.
GlobalObjects ==
    {ConfigWith(S, GlobalValue) :
        S \in {{}, Fields} \cup {{f} : f \in Fields} \cup {Fields \ {f} : f \in Fields}}

UserConfigs == {ConfigWith(S, UserValue) : S \in SubsetsUpTo(Fields, MaxUserFields)}

InitConfIdle ==
    /\ pcConf = "ready"
    /\ GlobalObject = ConfigWith({}, GlobalValue)
    /\ userConf = ConfigWith({}, UserValue)
    /\ glogLevel = <<>>
    /\ glogFile = <<>>

InitConf ==
    /\ pcConf = "ready"
    /\ GlobalObject \in GlobalObjects
    /\ userConf \in UserConfigs
    /\ glogLevel = <<>>
    /\ glogFile = <<>>

\* UserConfToGlobal with config.WorkerPoolSize copied whether set or not.
UserConfToGlobal_CopyWorkerPoolSize ==
    /\ pcConf \in {"ready", "done"}
    /\ GlobalObject' = [UserConfToGlobalFields(GlobalObject, userConf)
                           EXCEPT !.WorkerPoolSize = userConf.WorkerPoolSize]
    /\ glogLevel' = IF GlobalObject'.LogIsolationLevel > LogDebug
                    THEN <<GlobalObject'.LogIsolationLevel>> ELSE glogLevel
    /\ glogFile' = IF userConf.LogFile # ""
                   THEN <<GlobalObject'.LogDir, GlobalObject'.LogFile>> ELSE glogFile
    /\ pcConf' = IF pcConf = "ready" THEN "done" ELSE "twice"
    /\ UNCHANGED userConf

\* A variant that copies LogDir unconditionally, as LogIsolationLevel is.
UserConfToGlobal_CopyLogDir ==
    /\ pcConf \in {"ready", "done"}
    /\ GlobalObject' = [UserConfToGlobalFields(GlobalObject, userConf)
                           EXCEPT !.LogDir = userConf.LogDir]
    /\ glogLevel' = IF GlobalObject'.LogIsolationLevel > LogDebug
                    THEN <<GlobalObject'.LogIsolationLevel>> ELSE glogLevel
    /\ glogFile' = IF userConf.LogFile # ""
                   THEN <<GlobalObject'.LogDir, GlobalObject'.LogFile>> ELSE glogFile
    /\ pcConf' = IF pcConf = "ready" THEN "done" ELSE "twice"
    /\ UNCHANGED userConf

\* A variant that adds the user's MaxConn to the global one.
UserConfToGlobal_AddMaxConn ==
    /\ pcConf \in {"ready", "done"}
    /\ GlobalObject' = [UserConfToGlobalFields(GlobalObject, userConf)
                           EXCEPT !.MaxConn = GlobalObject.MaxConn + userConf.MaxConn]
    /\ glogLevel' = IF GlobalObject'.LogIsolationLevel > LogDebug
                    THEN <<GlobalObject'.LogIsolationLevel>> ELSE glogLevel
    /\ glogFile' = IF userConf.LogFile # ""
                   THEN <<GlobalObject'.LogDir, GlobalObject'.LogFile>> ELSE glogFile
    /\ pcConf' = IF pcConf = "ready" THEN "done" ELSE "twice"
    /\ UNCHANGED userConf

\* UserConfToGlobal(config); the caller may call it again with the same
\* config.
UserConfToGlobal ==
    /\ pcConf \in {"ready", "done"}
    /\ GlobalObject' = UserConfToGlobalFields(GlobalObject, userConf)
    /\ glogLevel' = IF GlobalObject'.LogIsolationLevel > LogDebug
                    THEN <<GlobalObject'.LogIsolationLevel>> ELSE glogLevel
    /\ glogFile' = IF userConf.LogFile # ""
                   THEN <<GlobalObject'.LogDir, GlobalObject'.LogFile>> ELSE glogFile
    /\ pcConf' = IF pcConf = "ready" THEN "done" ELSE "twice"
    /\ UNCHANGED userConf

---------------------------------------------------------------------------
(* The reader of a connection whose decoder is the LTV decoder, on lengths *)
(* alone: the framer is configured with GetLengthField() and every frame   *)
(* it emits is handed to Intercept.  The peer sends one well-formed frame, *)
(* a header declaring L and L value bytes, in any number of segments.      *)

\* LTV_Little_Decoder.GetLengthField()
GetLengthField ==
    [MaxFrameLength      |-> WAdd(MaxUint32, U(4 + 4)),
     LengthFieldOffset   |-> 0,
     LengthFieldLength   |-> 4,
     LengthAdjustment    |-> 4,
     InitialBytesToStrip |-> 0,
     Order               |-> "LittleEndian"]

\* One attempt of the framer on n buffered bytes whose length field reads L:
\* "needMore", an error, or "emit" with the frame's total length F.
FramerAttempt(lf, n, L) ==
    LET F == WAdd(U(lf.LengthFieldOffset + lf.LengthFieldLength + lf.LengthAdjustment), L)
    IN  IF WLt(n, U(lf.LengthFieldOffset + lf.LengthFieldLength))
        THEN [kind |-> "needMore", F |-> U(0)]
        ELSE IF WLt(lf.MaxFrameLength, F)
        THEN [kind |-> "FrameTooLarge", F |-> F]
        ELSE IF WLt(F, U(lf.InitialBytesToStrip))
        THEN [kind |-> "FrameMalformed", F |-> F]
        ELSE IF WLt(n, F)
        THEN [kind |-> "needMore", F |-> F]
        ELSE [kind |-> "emit", F |-> F]

\* Intercept on a frame of frameLen bytes (len = cap) whose header declares
\* L: whether decode panics, the upper index hi of data[8:hi] it computes,
\* and whether a message is passed on.
InterceptExtent(frameLen, L) ==
    IF WLt(frameLen, U(LTV_HEADER_SIZE))
    THEN [panic |-> FALSE, decoded |-> FALSE, hi |-> U(0), passedOn |-> TRUE]
    ELSE LET hi == ValueEnd(L)
         IN  IF SliceOK(frameLen, 8, hi)
             THEN [panic |-> FALSE, decoded |-> TRUE, hi |-> hi, passedOn |-> TRUE]
             ELSE [panic |-> TRUE, decoded |-> FALSE, hi |-> hi, passedOn |-> FALSE]

\* ---- the inputs: small lengths, and the lengths next to 2^32
MaxSmallL == 5
WrapWindow == 9

\* MaxUint32 - k, for k < 2^16
BelowMaxUint32(k) == <<Half - 1, Half - 1 - k>>

SentLengths == {U(n) : n \in 0..MaxSmallL} \cup {BelowMaxUint32(k) : k \in 0..WrapWindow}

PacketSizes == {2, 4}

InitFrameIdle ==
    /\ sentL = U(0)
    /\ buffered = U(0)
    /\ frameErr = <<>>
    /\ emitted = <<>>
    /\ ltvReads = <<>>
    /\ dispatched = 0

InitFrame ==
    /\ sentL \in SentLengths
    /\ GlobalObject \in {[ConfigWith(Fields, GlobalValue) EXCEPT !.MaxPacketSize = m] :
                            m \in PacketSizes}
    /\ buffered = U(0)
    /\ frameErr = <<>>
    /\ emitted = <<>>
    /\ ltvReads = <<>>
    /\ dispatched = 0

\* The bytes of the peer's frame: the 8-byte header and L value bytes.
WireLength == WAdd(U(LTV_HEADER_SIZE), sentL)

\* The reader reads the peer's bytes up to byte upTo, feeds the framer, and
\* hands the frame the framer emits, if any, to the interceptor chain.
ReadSegment(upTo) ==
    /\ frameErr = <<>>
    /\ emitted = <<>>
    /\ WLt(buffered, upTo)
    /\ WLe(upTo, WireLength)
    /\ LET a == FramerAttempt(GetLengthField, upTo, sentL)
       IN  CASE a.kind = "needMore" ->
                    /\ buffered' = upTo
                    /\ UNCHANGED <<frameErr, emitted, ltvReads, dispatched>>
             [] a.kind = "emit" ->
                    LET r == InterceptExtent(a.F, sentL)
                    IN  /\ buffered' = U(0)
                        /\ emitted' = Append(emitted, a.F)
                        /\ ltvReads' = Append(ltvReads, r)
                        /\ dispatched' = IF r.passedOn THEN dispatched + 1 ELSE dispatched
                        /\ UNCHANGED frameErr
             [] OTHER ->
                    /\ frameErr' = <<a.kind>>
                    /\ UNCHANGED <<buffered, emitted, ltvReads, dispatched>>
    /\ UNCHANGED sentL

\* The segment boundaries tried: inside the header, at its end, and the
\* frame's end.
SegmentEnds == {U(2), U(6), U(LTV_HEADER_SIZE), WireLength}

ReadAny == \E upTo \in SegmentEnds : ReadSegment(upTo)

---------------------------------------------------------------------------
(* gnet: RouterRecovery, RouterTime and getInfo.                           *)
(*                                                                         *)
(* A function name is the sequence of its pieces, "." being the separator: *)
(* <<"main", ".", "Ping">> is main.Ping.  A call stack is the sequence of  *)
(* the names runtime.Caller(0), runtime.Caller(1), ... report.             *)

StackBegin == 3
StackEnd == 5

\* strings.Split(name, "."): the pieces between the separators.
RECURSIVE SplitDot(_)
SplitDot(name) ==
    IF \A k \in 1..Len(name) : name[k] # "."
    THEN <<name>>
    ELSE LET k == CHOOSE j \in 1..Len(name) :
                      name[j] = "." /\ \A h \in 1..(j - 1) : name[h] # "."
         IN  <<SubSeq(name, 1, k - 1)>> \o SplitDot(SubSeq(name, k + 1, Len(name)))

\* getInfo(ship) called under the call stack `stack`: the lines written for
\* the frames ship..StackEnd, or a panic when strings.Split(funcname, ".")[1]
\* is out of range.  (The loop, from frame i on, with the lines so far.)
RECURSIVE getInfoFrom(_, _, _)
getInfoFrom(i, stack, lines) ==
    IF i > StackEnd \/ i + 1 > Len(stack)
    THEN [panic |-> FALSE, info |-> lines]
    ELSE LET parts == SplitDot(stack[i + 1])
         IN  IF Len(parts) < 2
             THEN [panic |-> TRUE, info |-> lines]
             ELSE getInfoFrom(i + 1, stack, Append(lines, parts[2]))

getInfo(ship, stack) == getInfoFrom(ship, stack, <<>>)

\* The frames runtime.Caller(0..2) reports inside getInfo when it runs in
\* RouterRecovery's deferred function during a panic.
RecoveryFrames ==
    <<<<"gnet", ".", "getInfo">>, <<"gnet", ".", "RouterRecovery", ".", "func1">>,
      <<"runtime", ".", "gopanic">>>>

\* The outcome of a call that runs handlers of a request: whether a panic
\* leaves it, the cursor at the end, the entries logged, the durations
\* printed and the calls and events in the order they happen.
\* env.panics says whether the user's handler panics, env.frames are the
\* frames runtime.Caller(3), (4), (5) report at that panic.

\* RouterRecovery(request), where r is the outcome of its call
\* request.RouterSlicesNext():
\*   defer func() { if err := recover(); err != nil {...} }()
\*   request.RouterSlicesNext()
RouterRecovery(r, env) ==
    LET g == getInfo(StackBegin, RecoveryFrames \o env.frames)
        t == <<"RouterRecovery", "RouterSlicesNext">> \o r.trace
    IN  IF ~r.panic THEN [r EXCEPT !.trace = t]
        ELSE IF g.panic THEN [r EXCEPT !.trace = Append(t, "recover")]
        ELSE [r EXCEPT !.panic = FALSE,
                       !.log = Append(r.log, [MsgId |-> env.msgID, info |-> g.info]),
                       !.trace = Append(t, "recover")]

\* A variant whose report is deferred: it prints also when a panic passes
\* through it.
RouterTime_DeferredPrintln(r) ==
    [r EXCEPT !.printed = r.printed + 1,
              !.trace = Append(<<"RouterTime", "RouterSlicesNext">> \o r.trace, "Println")]

\* RouterTime(request), where r is the outcome of its call
\* request.RouterSlicesNext():
\*   now := time.Now(); request.RouterSlicesNext();
\*   fmt.Println(time.Since(now))
RouterTime(r) ==
    LET t == <<"RouterTime", "RouterSlicesNext">> \o r.trace
    IN  IF r.panic THEN [r EXCEPT !.trace = t]
        ELSE [r EXCEPT !.printed = r.printed + 1, !.trace = Append(t, "Println")]

\* A request's handlers are run by request.RouterSlicesNext(), which moves
\* the cursor to the next handler and calls it.  RunNext(handlers, idx, env)
\* is the outcome of RouterSlicesNext() with the cursor at idx.
RECURSIVE RunNext(_, _, _)
RunNext(handlers, idx, env) ==
    LET j == idx + 1
        none == [panic |-> FALSE, index |-> j, log |-> <<>>, printed |-> 0,
                 trace |-> <<>>]
    IN  IF j > Len(handlers) THEN none
        ELSE CASE handlers[j] = "RouterRecovery" ->
                    RouterRecovery(RunNext(handlers, j, env), env)
               [] handlers[j] = "RouterTime" ->
                    RouterTime(RunNext(handlers, j, env))
               [] OTHER ->
                    \* the user's handler
                    IF env.panics
                    THEN [panic |-> TRUE, index |-> j, log |-> <<>>, printed |-> 0,
                          trace |-> <<"handler", "panic">>]
                    ELSE [none EXCEPT !.trace = <<"handler", "return">>]

\* The handlers of every message id: the prelude and the user's handler.
Handlers == <<"RouterRecovery", "RouterTime", "handler">>

\* ---- the inputs
NumConns == 2
MaxMsgs == 2

Conns == 1..NumConns

\* Names of Go functions: a method of package main, a function of a package
\* with a dotted import path, a run-time function, and an assembly routine
\* of the run time, whose name has no package part.
FuncNames ==
    {<<"main", ".", "Ping">>,
     <<"github", ".", "com/liyee/gtcp/gnet", ".", "RouterTime">>,
     <<"runtime", ".", "panicmem">>,
     <<"memeqbody">>}

InitRouterIdle ==
    /\ handled = [c \in Conns |-> 0]
    /\ lastRun = <<>>
    /\ glogErrors = <<>>
    /\ crashed = FALSE

InitRouter == InitRouterIdle

\* A message of connection c is dispatched: its handlers run on the
\* reader's goroutine.  A panic that leaves them ends the process.
Dispatch(c) ==
    /\ ~crashed
    /\ handled[c] < MaxMsgs
    /\ \E panics \in BOOLEAN, frames \in [1..3 -> FuncNames], id \in {1, 2} :
          LET env == [panics |-> panics, frames |-> frames, msgID |-> id]
              r == RunNext(Handlers, 0, env)
          IN  /\ lastRun' = <<[conn |-> c, env |-> env, result |-> r]>>
              /\ glogErrors' = r.log
              /\ crashed' = r.panic
              /\ handled' = IF r.panic THEN handled
                            ELSE [handled EXCEPT ![c] = handled[c] + 1]

DispatchAny == \E c \in Conns : Dispatch(c)

---------------------------------------------------------------------------
(* The client (gnet/client.go).  One caller uses the client's methods one  *)
(* after the other; every Restart spawns a goroutine that dials, stores    *)
(* the connection, binds the heartbeat checker, starts the connection and  *)
(* waits on the exit channel; the user may receive from ErrChan.  The      *)
(* fields c.conn, c.hc and c.exitChan are read by the goroutines without   *)
(* synchronisation: each read is a step of its own and sees the value of   *)
(* that moment.                                                            *)

HeartBeatDefaultMsgID == 99999

MaxRestarts == 2     \* calls of Start and Restart together
MaxHeartBeats == 2   \* heartbeat checkers made

MsgIDs == {1, HeartBeatDefaultMsgID}

UserRouter == [name |-> "userRouter", checker |-> 0]

UserRouters == {UserRouter}

\* A *giface.HeartBeatOption: <<>> for nil.
HeartBeatOptions ==
    {<<>>} \cup {<<[HeartBeatMsgID |-> i, Router |-> r]>> : i \in MsgIDs, r \in UserRouters}

\* The k-th checker as NewHeartbeatChecker returns it: bound to the default
\* message id and to a default router of its own, and to no connection.
NewHeartbeatChecker(k) ==
    [id     |-> k,
     msgID  |-> HeartBeatDefaultMsgID,
     router |-> [name |-> "HeatBeatDefaultRouter", checker |-> k],
     conn   |-> 0]

\* checker.BindRouter(msgID, router)
BindRouter(checker, msgID, router) ==
    [checker EXCEPT !.msgID = msgID, !.router = router]

\* c.msgHandler.AddRouter(msgID, router) on the routes a
MsgHandlerAddRouter(a, msgID, router) == [a EXCEPT ![msgID] = <<router>>]

\* c.AddRouter(msgID, router) on the routes a of the client's message handler
AddRouter(a, msgID, router) == MsgHandlerAddRouter(a, msgID, router)

\* NewClient: the decoder is the TLV decoder, ErrChan is open, and there is
\* no connection, no exit channel and no heartbeat checker yet.
InitClientIdle ==
    /\ frozen = FALSE
    /\ decoder = <<"TLVDecoder">>
    /\ interceptors = <<>>
    /\ apis = [i \in MsgIDs |-> <<>>]
    /\ hc = <<>>
    /\ checkersMade = 0
    /\ conn = 0
    /\ conns = <<>>
    /\ exitChan = 0
    /\ closed = {}
    /\ errClosed = FALSE
    /\ gos = <<>>
    /\ mainPc = "idle"
    /\ clientPanic = <<>>

\* A client as NewClient returns it, in a process whose global configuration
\* has every option set (the worker pool included).
InitClient ==
    /\ GlobalObject = ConfigWith(Fields, GlobalValue)
    /\ InitClientIdle

\* No goroutine has panicked: the process is alive.
Running == clientPanic = <<>>

\* The caller is between two calls.
CallerIdle == Running /\ mainPc = "idle"

\* The server's Start(): the point after which the configuration is frozen.
ServerStart ==
    /\ Running /\ ~frozen
    /\ frozen' = TRUE
    /\ UNCHANGED <<GlobalObject, decoder, interceptors, apis, hc, checkersMade, conn,
                   conns, exitChan, closed, errClosed, gos, mainPc, clientPanic>>

\* Restart without the write to the global configuration.
RestartBody_KeepPool ==
    /\ Len(gos) < MaxRestarts
    /\ exitChan' = Len(gos) + 1
    /\ UNCHANGED GlobalObject
    /\ gos' = Append(gos, [pc |-> "dial", ch |-> 0])

\* The body of Restart: a new exit channel, the worker pool switched off in
\* the global configuration, and the goroutine that connects.
RestartBody ==
    /\ Len(gos) < MaxRestarts
    /\ exitChan' = Len(gos) + 1
    /\ GlobalObject' = [GlobalObject EXCEPT !.WorkerPoolSize = 0]
    /\ gos' = Append(gos, [pc |-> "dial", ch |-> 0])

\* Restart that adds the decoder to the interceptors again.
Restart_AddsDecoder ==
    /\ CallerIdle
    /\ interceptors' = IF decoder # <<>> THEN Append(interceptors, decoder[1])
                                        ELSE interceptors
    /\ RestartBody
    /\ UNCHANGED <<frozen, decoder, apis, hc, checkersMade, conn, conns,
                   closed, errClosed, mainPc, clientPanic>>

Restart ==
    /\ CallerIdle
    /\ RestartBody
    /\ UNCHANGED <<frozen, decoder, interceptors, apis, hc, checkersMade, conn, conns,
                   closed, errClosed, mainPc, clientPanic>>

Start ==
    /\ CallerIdle
    /\ interceptors' = IF decoder # <<>> THEN Append(interceptors, decoder[1])
                                        ELSE interceptors
    /\ RestartBody
    /\ UNCHANGED <<frozen, decoder, apis, hc, checkersMade, conn, conns,
                   closed, errClosed, mainPc, clientPanic>>

\* The decoders a client is given: nil, or the TLV decoder.
Decoders == {<<>>, <<"TLVDecoder">>}

\* c.SetDecoder(d)
SetDecoder(d) ==
    /\ CallerIdle
    /\ decoder' = d
    /\ UNCHANGED <<GlobalObject, frozen, interceptors, apis, hc, checkersMade, conn,
                   conns, exitChan, closed, errClosed, gos, mainPc, clientPanic>>

\* The goroutine of Restart dials.  On failure it goes on to send the error
\* on ErrChan; on success it makes the connection and stores it in c.conn.
GoDial(g) ==
    /\ Running /\ g <= Len(gos) /\ gos[g].pc = "dial"
    /\ \E ok \in BOOLEAN :
         IF ok
         THEN /\ conns' = Append(conns, [started |-> FALSE, stopped |-> FALSE])
              /\ conn' = Len(conns) + 1
              /\ gos' = [gos EXCEPT ![g].pc = "bind"]
         ELSE /\ gos' = [gos EXCEPT ![g].pc = "sendErr"]
              /\ UNCHANGED <<conn, conns>>
    /\ UNCHANGED <<GlobalObject, frozen, decoder, interceptors, apis, hc, checkersMade,
                   exitChan, closed, errClosed, mainPc, clientPanic>>

\* c.ErrChan <- err on the unbuffered ErrChan: the send completes when the
\* user receives; on a closed channel it panics.
GoSendErr(g) ==
    /\ Running /\ g <= Len(gos) /\ gos[g].pc = "sendErr"
    /\ IF errClosed
       THEN /\ clientPanic' = <<"send on closed channel">>
            /\ UNCHANGED gos
       ELSE /\ gos' = [gos EXCEPT ![g].pc = "failed"]
            /\ UNCHANGED clientPanic
    /\ UNCHANGED <<GlobalObject, frozen, decoder, interceptors, apis, hc, checkersMade,
                   conn, conns, exitChan, closed, errClosed, mainPc>>

\* if c.hc != nil { c.hc.BindConn(c.conn) }
GoBindConn(g) ==
    /\ Running /\ g <= Len(gos) /\ gos[g].pc = "bind"
    /\ hc' = IF hc # <<>> THEN <<[hc[1] EXCEPT !.conn = conn]>> ELSE hc
    /\ gos' = [gos EXCEPT ![g].pc = "start"]
    /\ UNCHANGED <<GlobalObject, frozen, decoder, interceptors, apis, checkersMade,
                   conn, conns, exitChan, closed, errClosed, mainPc,
                   clientPanic>>

\* go c.conn.Start()
GoStartConn(g) ==
    /\ Running /\ g <= Len(gos) /\ gos[g].pc = "start"
    /\ conns' = [conns EXCEPT ![conn].started = TRUE]
    /\ gos' = [gos EXCEPT ![g].pc = "select"]
    /\ UNCHANGED <<GlobalObject, frozen, decoder, interceptors, apis, hc, checkersMade,
                   conn, exitChan, closed, errClosed, mainPc, clientPanic>>

\* select { case <-c.exitChan: }: the goroutine reads c.exitChan and from
\* then on waits on that channel.
GoSelect(g) ==
    /\ Running /\ g <= Len(gos) /\ gos[g].pc = "select"
    /\ gos' = [gos EXCEPT ![g].pc = "wait", ![g].ch = exitChan]
    /\ UNCHANGED <<GlobalObject, frozen, decoder, interceptors, apis, hc, checkersMade,
                   conn, conns, exitChan, closed, errClosed, mainPc, clientPanic>>

\* The receive from a closed exit channel returns at once.
GoExit(g) ==
    /\ Running /\ g <= Len(gos) /\ gos[g].pc = "wait" /\ gos[g].ch \in closed
    /\ gos' = [gos EXCEPT ![g].pc = "exited"]
    /\ UNCHANGED <<GlobalObject, frozen, decoder, interceptors, apis, hc, checkersMade,
                   conn, conns, exitChan, closed, errClosed, mainPc, clientPanic>>

\* Stop, up to the send on the exit channel: c.conn.LocalAddr() on a nil
\* c.conn panics; otherwise the connection is stopped.
Stop ==
    /\ CallerIdle
    /\ IF conn = 0
       THEN /\ clientPanic' = <<"nil pointer dereference">>
            /\ UNCHANGED <<conns, mainPc>>
       ELSE /\ conns' = [conns EXCEPT ![conn].stopped = TRUE]
            /\ mainPc' = "stopSend"
            /\ UNCHANGED clientPanic
    /\ UNCHANGED <<GlobalObject, frozen, decoder, interceptors, apis, hc, checkersMade,
                   conn, exitChan, closed, errClosed, gos>>

\* c.exitChan <- struct{}{}: the send on the unbuffered exit channel meets a
\* goroutine waiting on that channel; on a closed channel it panics.
StopSend ==
    /\ Running /\ mainPc = "stopSend"
    /\ IF exitChan \in closed
       THEN /\ clientPanic' = <<"send on closed channel">>
            /\ UNCHANGED <<gos, mainPc>>
       ELSE /\ \E g \in 1..Len(gos) :
                 /\ gos[g].pc = "wait" /\ gos[g].ch = exitChan
                 /\ gos' = [gos EXCEPT ![g].pc = "exited"]
            /\ mainPc' = "stopClose"
            /\ UNCHANGED clientPanic
    /\ UNCHANGED <<GlobalObject, frozen, decoder, interceptors, apis, hc, checkersMade,
                   conn, conns, exitChan, closed, errClosed>>

\* close(c.exitChan); close(c.ErrChan): closing a closed channel panics.
StopClose ==
    /\ Running /\ mainPc = "stopClose"
    /\ closed' = closed \cup {exitChan}
    /\ IF errClosed
       THEN /\ clientPanic' = <<"close of closed channel">>
            /\ UNCHANGED <<errClosed, mainPc>>
       ELSE /\ errClosed' = TRUE
            /\ mainPc' = "idle"
            /\ UNCHANGED clientPanic
    /\ UNCHANGED <<GlobalObject, frozen, decoder, interceptors, apis, hc, checkersMade,
                   conn, conns, exitChan, gos>>

StartHeartBeat ==
    /\ CallerIdle /\ checkersMade < MaxHeartBeats
    /\ LET checker == NewHeartbeatChecker(checkersMade + 1)
       IN  /\ checkersMade' = checkersMade + 1
           /\ apis' = AddRouter(apis, checker.msgID, checker.router)
           /\ hc' = <<checker>>
    /\ UNCHANGED <<GlobalObject, frozen, decoder, interceptors, conn, conns,
                   exitChan, closed, errClosed, gos, mainPc,
                   clientPanic>>

\* The route goes under the default message id, whatever the checker is bound to.
StartHeartBeatWithOption_DefaultID(option) ==
    /\ CallerIdle /\ checkersMade < MaxHeartBeats
    /\ LET made    == NewHeartbeatChecker(checkersMade + 1)
           checker == IF option # <<>>
                      THEN BindRouter(made, option[1].HeartBeatMsgID, option[1].Router)
                      ELSE made
       IN  /\ checkersMade' = checkersMade + 1
           /\ apis' = AddRouter(apis, HeartBeatDefaultMsgID, checker.router)
           /\ hc' = <<checker>>
    /\ UNCHANGED <<GlobalObject, frozen, decoder, interceptors, conn, conns,
                   exitChan, closed, errClosed, gos, mainPc,
                   clientPanic>>

StartHeartBeatWithOption(option) ==
    /\ CallerIdle /\ checkersMade < MaxHeartBeats
    /\ LET made    == NewHeartbeatChecker(checkersMade + 1)
           checker == IF option # <<>>
                      THEN BindRouter(made, option[1].HeartBeatMsgID, option[1].Router)
                      ELSE made
       IN  /\ checkersMade' = checkersMade + 1
           /\ apis' = AddRouter(apis, checker.msgID, checker.router)
           /\ hc' = <<checker>>
    /\ UNCHANGED <<GlobalObject, frozen, decoder, interceptors, conn, conns,
                   exitChan, closed, errClosed, gos, mainPc,
                   clientPanic>>

---------------------------------------------------------------------------
(* The specifications: one per part.                                       *)

\* The gconf variables that UserConfToGlobal alone sets, before any call.
ConfIdle ==
    /\ pcConf = "ready" /\ userConf = ConfigWith({}, UserValue)
    /\ glogLevel = <<>> /\ glogFile = <<>>

\* One call of LTV_Little_Decoder.Intercept on any message.
InitSpecLTV == InitLTV /\ InitConfIdle /\ InitFrameIdle /\ InitRouterIdle /\ InitClientIdle

NextLTV ==
    Intercept /\ UNCHANGED <<GlobalObject, confVars, frameVars, routerVars, clientVars>>

SpecLTV == InitSpecLTV /\ [][NextLTV]_vars

\* One call of UserConfToGlobal on any configuration.
InitSpecConf == InitConf /\ InitLTVIdle /\ InitFrameIdle /\ InitRouterIdle /\ InitClientIdle

NextConf == UserConfToGlobal /\ UNCHANGED <<ltvVars, frameVars, routerVars, clientVars>>

SpecConf == InitSpecConf /\ [][NextConf]_vars

\* The reader of one connection receiving one frame.
InitSpecFrame == InitFrame /\ ConfIdle /\ InitLTVIdle /\ InitRouterIdle /\ InitClientIdle

NextFrame ==
    ReadAny /\ UNCHANGED <<ltvVars, GlobalObject, confVars, routerVars, clientVars>>

SpecFrame == InitSpecFrame /\ [][NextFrame]_vars

\* Messages of several connections dispatched to the handler chain.
InitSpecRouter == InitRouter /\ InitLTVIdle /\ InitConfIdle /\ InitFrameIdle /\ InitClientIdle

NextRouter ==
    DispatchAny /\ UNCHANGED <<ltvVars, GlobalObject, confVars, frameVars, clientVars>>

SpecRouter == InitSpecRouter /\ [][NextRouter]_vars

\* The messages of one connection, dispatched one after the other.
NextRouterOneConn ==
    Dispatch(1) /\ UNCHANGED <<ltvVars, GlobalObject, confVars, frameVars, clientVars>>

SpecRouterOneConn == InitSpecRouter /\ [][NextRouterOneConn]_vars

\* A client in a process of its own.
InitSpecClient == InitClient /\ ConfIdle /\ InitLTVIdle /\ InitFrameIdle /\ InitRouterIdle

\* The variables of the other parts stay as they are.
ClientOnly == UNCHANGED <<ltvVars, confVars, frameVars, routerVars>>

\* A client whose caller starts, restarts and stops it and starts heartbeat
\* detection, with the goroutines of Restart.
NextClient ==
    \/ Start /\ ClientOnly
    \/ Restart /\ ClientOnly
    \/ Stop /\ ClientOnly
    \/ StopSend /\ ClientOnly
    \/ StopClose /\ ClientOnly
    \/ StartHeartBeat /\ ClientOnly
    \/ \E option \in HeartBeatOptions : StartHeartBeatWithOption(option) /\ ClientOnly
    \/ \E g \in 1..MaxRestarts : GoDial(g) /\ ClientOnly
    \/ \E g \in 1..MaxRestarts : GoSendErr(g) /\ ClientOnly
    \/ \E g \in 1..MaxRestarts : GoBindConn(g) /\ ClientOnly
    \/ \E g \in 1..MaxRestarts : GoStartConn(g) /\ ClientOnly
    \/ \E g \in 1..MaxRestarts : GoSelect(g) /\ ClientOnly
    \/ \E g \in 1..MaxRestarts : GoExit(g) /\ ClientOnly

SpecClient == InitSpecClient /\ [][NextClient]_vars

\* A process that runs a server and a client: the server's Start(), and the
\* client's life cycle with the decoder its caller gives it.
NextProcess ==
    \/ ServerStart /\ ClientOnly
    \/ \E d \in Decoders : SetDecoder(d) /\ ClientOnly
    \/ Start /\ ClientOnly
    \/ Restart /\ ClientOnly
    \/ Stop /\ ClientOnly
    \/ StopSend /\ ClientOnly
    \/ StopClose /\ ClientOnly
    \/ \E g \in 1..MaxRestarts : GoDial(g) /\ ClientOnly
    \/ \E g \in 1..MaxRestarts : GoSendErr(g) /\ ClientOnly
    \/ \E g \in 1..MaxRestarts : GoBindConn(g) /\ ClientOnly
    \/ \E g \in 1..MaxRestarts : GoStartConn(g) /\ ClientOnly
    \/ \E g \in 1..MaxRestarts : GoSelect(g) /\ ClientOnly
    \/ \E g \in 1..MaxRestarts : GoExit(g) /\ ClientOnly

SpecProcess == InitSpecClient /\ [][NextProcess]_vars

\* The steps a goroutine of Restart takes by itself, without a receiver on
\* ErrChan: the Go scheduler lets it take them.  A send on ErrChan goes on by
\* itself only when the channel is closed, and then it panics.
GoStep(g) ==
    /\ \/ GoDial(g) \/ GoBindConn(g) \/ GoStartConn(g) \/ GoSelect(g) \/ GoExit(g)
       \/ errClosed /\ GoSendErr(g)
    /\ ClientOnly

\* The steps of the caller inside Stop.
InStop == (StopSend \/ StopClose) /\ ClientOnly

\* The process with its goroutines scheduled fairly: a goroutine that can go
\* on does go on; the user need not call anything nor receive from ErrChan.
SpecProcessFair ==
    /\ InitSpecClient /\ [][NextProcess]_vars
    /\ \A g \in 1..MaxRestarts : WF_vars(GoStep(g))
    /\ WF_vars(InStop)

---------------------------------------------------------------------------
(* Claims about the decoder interceptor, checked under SpecLTV.            *)

\* The data of the message the interceptor was handed.
InData == chainMsg[1].data.bytes

\* The header-declared length: the little-endian u32 of bytes 0..3.
DeclaredL == <<InData[4] * 256 + InData[3], InData[2] * 256 + InData[1]>>

\* The frame holds the L value bytes its header declares.
HoldsDeclaredValue == WLe(WAdd(U(8), DeclaredL), U(Len(InData)))

\* C1: for a frame of at least 8 bytes that holds the L value bytes its
\* header declares, the interceptor makes exactly one call of the next
\* interceptor, with the message msg_id = little-endian u32 of bytes 4..7,
\* data_len = L and data = bytes 8..8+L-1 (unless decode panicked, which it
\* does for no frame of these sizes); the example frame
\* 05 00 00 00 01 00 00 00 'HELLO' yields {id=1, len=5, data="HELLO"}.
C1_DecodedMessage ==
    (pcI = "done" /\ chainMsg # <<>>) =>
        /\ (Len(InData) >= 8 /\ HoldsDeclaredValue /\ ~ltvPanic) =>
              /\ Len(proceeded) = 1
              /\ proceeded[1].msg =
                    <<[id      |-> <<InData[8] * 256 + InData[7],
                                    InData[6] * 256 + InData[5]>>,
                       dataLen |-> DeclaredL,
                       data    |-> [bytes |-> SubSeq(InData, 9, 8 + ToInt(DeclaredL)),
                                    spare |-> <<>>]]>>
        /\ (InData = HelloFrame) =>
              /\ ~ltvPanic
              /\ proceeded[1].msg =
                    <<[id |-> U(1), dataLen |-> U(5),
                       data |-> [bytes |-> <<72, 69, 76, 76, 79>>, spare |-> <<>>]]>>

\* A frame with a non-zero tag and one value byte has been decoded and
\* passed on.
C1_Witness ==
    /\ pcI = "done"
    /\ chainMsg # <<>>
    /\ Len(InData) = 9
    /\ DeclaredL = U(1)
    /\ SubSeq(InData, 5, 8) = <<1, 0, 0, 255>>
    /\ ~ltvPanic
    /\ Len(proceeded) = 1
    /\ proceeded[1].msg # <<>>

\* C4: input shorter than the 8-byte header is never forwarded down the
\* interceptor chain undecoded: the interceptor makes no call of the next
\* interceptor for it.
C4_ShortInputHeld ==
    (pcI = "done" /\ chainMsg # <<>> /\ Len(InData) < LTV_HEADER_SIZE) =>
        proceeded = <<>>

\* C5: every message that leaves the interceptor towards the next one
\* satisfies data_len = len(data).
C5_DataLenIsLen ==
    pcI = "done" =>
        \A i \in 1..Len(proceeded) :
            proceeded[i].msg # <<>> =>
                proceeded[i].msg[1].dataLen = U(GoLen(proceeded[i].msg[1].data))

---------------------------------------------------------------------------
(* Claims about UserConfToGlobal, checked under SpecConf.                  *)

\* C8: the KCP stream-mode flag means 'enable stream mode': a call of
\* UserConfToGlobal(config) leaves the global KcpStreamMode true when
\* config.KcpStreamMode is true, and a false user value does not turn an
\* enabled stream mode off.
C8_StreamModeEnables ==
    [][(pcConf = "ready" /\ pcConf' = "done") =>
          GlobalObject'.KcpStreamMode =
              (GlobalObject.KcpStreamMode \/ userConf.KcpStreamMode)]_vars

\* C9 as claimed: after UserConfToGlobal(config) with
\* config.WorkerPoolSize = 0 the global WorkerPoolSize is 0.
C9_ZeroDisablesPool ==
    (pcConf = "done" /\ userConf.WorkerPoolSize = 0) => GlobalObject.WorkerPoolSize = 0

\* C9 as amended: a call of UserConfToGlobal(config) with
\* config.WorkerPoolSize = 0 leaves the global WorkerPoolSize as it was, and
\* one with a non-zero config.WorkerPoolSize sets it to that value.
C9_ZeroKeepsPoolSize ==
    [][(pcConf = "ready" /\ pcConf' = "done") =>
          GlobalObject'.WorkerPoolSize =
              IF userConf.WorkerPoolSize = 0
              THEN GlobalObject.WorkerPoolSize ELSE userConf.WorkerPoolSize]_vars

\* A call with config.WorkerPoolSize = 0 has returned and the pool size is
\* the non-zero one from before the call.
C9_Witness ==
    /\ pcConf = "done"
    /\ userConf.WorkerPoolSize = 0
    /\ GlobalObject.WorkerPoolSize = GlobalValue("WorkerPoolSize")

---------------------------------------------------------------------------
(* Claims about the reader with the LTV length field, checked under        *)
(* SpecFrame.                                                              *)

\* C2: a frame whose value portion has at most max_packet_size bytes is
\* not rejected, and a frame whose header declares more is rejected with
\* FrameTooLarge as soon as the framer has its length field: it is never
\* emitted and no message is dispatched for it.
C2_MaxPacketSizeBoundsFrame ==
    LET mps == U(GlobalObject.MaxPacketSize)
    IN  /\ WLe(sentL, mps) => frameErr = <<>>
        /\ WLt(mps, sentL) =>
              /\ emitted = <<>>
              /\ dispatched = 0
              /\ WLt(buffered, U(4))

\* C10: the decoder describes its layout as offset 0, length-field length
\* 4, adjustment 4, strip 0, little-endian, and every frame the framer
\* emits for a header-declared L has 8 + L bytes, which are exactly the
\* bytes the decoder reads: it computes the upper index 8 + L = F for the
\* value and does not fail on it.
C10_FrameIsWhatDecoderReads ==
    /\ GetLengthField.LengthFieldOffset = 0
    /\ GetLengthField.LengthFieldLength = 4
    /\ GetLengthField.LengthAdjustment = 4
    /\ GetLengthField.InitialBytesToStrip = 0
    /\ GetLengthField.Order = "LittleEndian"
    /\ \A i \in 1..Len(emitted) :
          /\ emitted[i] = WAdd(U(8), sentL)
          /\ ~ltvReads[i].panic
          /\ ltvReads[i].hi = emitted[i]

---------------------------------------------------------------------------
(* Claims about the prelude middlewares, checked under SpecRouter and      *)
(* SpecRouterOneConn.                                                      *)

\* C3: RouterRecovery returns normally for every panic of a handler further
\* down the chain, so no panic leaves the handler chain, and a message of
\* any connection can still be dispatched afterwards.
C3_RecoveryReturnsNormally ==
    /\ ~crashed
    /\ lastRun # <<>> => ~lastRun[1].result.panic

\* The positions of the events of tr that are in S.
Positions(tr, S) == {i \in 1..Len(tr) : tr[i] \in S}

\* C18: the prelude middlewares never terminate the chain: in every
\* dispatch, each call of RouterRecovery and of RouterTime is followed by
\* exactly one call of RouterSlicesNext, so the cursor moves once for the
\* dispatcher and once for each of them and the user's handler is reached,
\* whether or not that handler panics; and RouterTime prints its duration
\* only after the rest of the chain has returned without a panic.
C18_PreludeAdvancesOnce ==
    lastRun # <<>> =>
        LET r  == lastRun[1].result
            tr == r.trace
            Prelude == {"RouterRecovery", "RouterTime"}
        IN  /\ \A i \in Positions(tr, Prelude) :
                   i < Len(tr) /\ tr[i + 1] = "RouterSlicesNext"
            /\ Cardinality(Positions(tr, {"RouterSlicesNext"})) =
                   Cardinality(Positions(tr, Prelude))
            /\ r.index = 1 + Cardinality(Positions(tr, Prelude))
            /\ Positions(tr, {"handler"}) # {}
            /\ r.printed = Cardinality(Positions(tr, {"Println"}))
            /\ \A i \in Positions(tr, {"Println"}) :
                   /\ \E k \in 1..(i - 1) : tr[k] = "return"
                   /\ \A k \in 1..(i - 1) : tr[k] # "panic"

\* A message whose handler panicked has been dispatched: both middlewares
\* called RouterSlicesNext, the handler was reached, nothing was printed.
C18_Witness ==
    /\ lastRun # <<>>
    /\ lastRun[1].env.panics
    /\ lastRun[1].result.trace[1] = "RouterRecovery"
    /\ Positions(lastRun[1].result.trace, {"panic"}) # {}
    /\ Cardinality(Positions(lastRun[1].result.trace, {"RouterSlicesNext"})) = 2
    /\ lastRun[1].result.index = Len(Handlers)
    /\ lastRun[1].result.printed = 0


---------------------------------------------------------------------------
(* The client                                                              *)

\* C6: once the server's Start() has run, no step changes the global
\* configuration object: every later operation, Client.Start and each
\* Client.Restart included, leaves all of its fields as they were.
C6_ConfigFrozenAfterStart == [][frozen => GlobalObject' = GlobalObject]_vars

\* The message id a checker is bound to after StartHeartBeat or
\* StartHeartBeatWithOption with the given option: the default one, or the
\* option's when the option rebinds it.
BoundMsgID(option) ==
    IF option = <<>> THEN HeartBeatDefaultMsgID ELSE option[1].HeartBeatMsgID

\* The state the claim describes after a call with the given option (<<>> for
\* StartHeartBeat and for a nil option).
HeartBeatRouted(option) ==
    /\ hc # <<>>
    /\ hc[1].id = checkersMade
    /\ hc[1].msgID = BoundMsgID(option)
    /\ apis[hc[1].msgID] = <<hc[1].router>>
    /\ option # <<>> => hc[1].router = option[1].Router
    /\ option = <<>> => hc[1].router = NewHeartbeatChecker(hc[1].id).router

\* C7: after every call of StartHeartBeat or StartHeartBeatWithOption, the
\* checker stored in c.hc is the one the call made, it is bound to the default
\* message id 99999 or to the option's id, and the client's message handler
\* has under exactly that id the checker's own router.
C7_HeartBeatRouted ==
    [][/\ StartHeartBeat => HeartBeatRouted(<<>>)'
       /\ \A option \in HeartBeatOptions :
             StartHeartBeatWithOption(option) => HeartBeatRouted(option)']_vars

\* A second checker, made with an option that rebinds it to message id 1
\* after a first one with the default id, is stored in the client and routed,
\* and a goroutine of Restart has bound it to the connection.
C7_Witness ==
    /\ checkersMade = 2 /\ hc # <<>> /\ hc[1].id = 2
    /\ hc[1].msgID = 1
    /\ apis[HeartBeatDefaultMsgID] = <<NewHeartbeatChecker(1).router>>
    /\ apis[1] = <<UserRouter>>
    /\ hc[1].conn # 0

\* C11: from the moment a call of Start or Restart has spawned its goroutine,
\* the worker pool size of the global configuration is 0: it is 0 before the
\* goroutine dials, before it starts the connection, and when the connection
\* starts.
C11_PoolOffBeforeDial ==
    /\ gos # <<>> => GlobalObject.WorkerPoolSize = 0
    /\ \A i \in 1..Len(conns) : conns[i].started => GlobalObject.WorkerPoolSize = 0

\* Two runs of Restart in a process whose worker pool was on: the connection
\* of one has started, the other is about to dial.
C11_Witness ==
    /\ Len(gos) = 2 /\ gos[2].pc = "dial"
    /\ conns # <<>> /\ conns[1].started
    /\ GlobalObject.WorkerPoolSize = 0
    /\ ConfigWith(Fields, GlobalValue).WorkerPoolSize # 0

\* A goroutine of Restart is between storing the connection it made and
\* starting a connection.
Connecting(g) == gos[g].pc \in {"bind", "start"}

\* C12: every run of Restart whose dial succeeds makes a connection, binds
\* the checker to it and then starts it: once no run is between making its
\* connection and starting one, every connection made has been started, and
\* a checker that was bound is bound to a connection that has been started.
C12_ConnectOrder ==
    (\A g \in 1..Len(gos) : ~Connecting(g)) =>
        /\ \A i \in 1..Len(conns) : conns[i].started
        /\ hc # <<>> /\ hc[1].conn # 0 => conns[hc[1].conn].started

\* C13: a run of Restart whose dial fails leaves c.conn, the connections and
\* the checker as they are, and its next and last step is the send of one
\* error on ErrChan, after which the run has ended.
C13_DialFailure ==
    [][\A g \in 1..Len(gos) :
         /\ GoDial(g) /\ gos'[g].pc = "sendErr" =>
                conn' = conn /\ conns' = conns /\ hc' = hc
         /\ GoSendErr(g) =>
                /\ gos'[g].pc = "failed" /\ clientPanic' = <<>>
                /\ conn' = conn /\ conns' = conns /\ hc' = hc]_vars

\* The calls of Restart and Stop, with the steps inside Stop.
RestartOrStop == Restart \/ Stop \/ StopSend \/ StopClose

\* C14: a call of Start adds the decoder, when one is set, to the end of the
\* interceptor chain and nothing else; Restart and Stop leave the chain and
\* the router table as they are, and so does every step of the goroutines:
\* the chain holds the decoder once per call of Start.
C14_ChainFixedAtStart ==
    [][/\ Start =>
            /\ decoder # <<>> => interceptors' = Append(interceptors, decoder[1])
            /\ decoder = <<>> => interceptors' = interceptors
            /\ apis' = apis
       /\ RestartOrStop => interceptors' = interceptors /\ apis' = apis
       /\ (\E g \in 1..Len(gos) : gos'[g] # gos[g]) =>
            interceptors' = interceptors /\ apis' = apis]_vars

\* One Start with the TLV decoder, then a Stop and a Restart: the decoder is
\* in the chain once.
C14_Witness ==
    /\ interceptors = <<"TLVDecoder">>
    /\ Len(gos) = 2 /\ errClosed /\ exitChan = 2
    /\ decoder = <<"TLVDecoder">>

\* C15: no goroutine of the process ever sends on a closed channel or closes
\* a closed channel, whether the exit channel or ErrChan.
C15_NoClosedChannelMisuse ==
    /\ clientPanic # <<"send on closed channel">>
    /\ clientPanic # <<"close of closed channel">>

\* A call of Stop that came after the g-th call of Restart has returned: it
\* closed the exit channel of that Restart or of a later one.
StoppedAfter(g) == g <= Len(gos) /\ \E c \in closed : c >= g

\* The goroutine of the g-th Restart has returned, or the process has died
\* of a panic and all its goroutines with it.
Terminated(g) ==
    \/ g <= Len(gos) /\ gos[g].pc \in {"exited", "failed"}
    \/ clientPanic # <<>>

\* C16: for every call of Restart, once a call of Stop made after it has
\* returned, the goroutine that Restart spawned eventually terminates.
C16_GoroutinesEndAfterStop ==
    \A g \in 1..MaxRestarts : [](StoppedAfter(g) => <>Terminated(g))

---------------------------------------------------------------------------
(* Further claims about UserConfToGlobal, checked under SpecConf.          *)

\* C17: a call of UserConfToGlobal(config) overrides a global field only when
\* the user's field is set: for every field other than LogIsolationLevel and
\* KcpStreamMode a zero, empty or false user value leaves the global field
\* as it was and any other user value replaces it with exactly that value;
\* LogIsolationLevel is copied unconditionally; the global configuration
\* has no other field after the call than before it.
C17_OverridesOnlySetFields ==
    [][(pcConf = "ready" /\ pcConf' = "done") =>
          /\ \A f \in Fields \ {"LogIsolationLevel", "KcpStreamMode"} :
                 GlobalObject'[f] = IF userConf[f] = Zero(f)
                                    THEN GlobalObject[f] ELSE userConf[f]
          /\ GlobalObject'.LogIsolationLevel = userConf.LogIsolationLevel
          /\ DOMAIN GlobalObject' = DOMAIN GlobalObject]_vars

\* A call has returned whose config set Name and nothing else, over a global
\* configuration with every field set: Name is the user's, LogDir and
\* TcpPort are the global ones from before, LogIsolationLevel is the
\* user's zero.
C17_Witness ==
    /\ pcConf = "done"
    /\ userConf = ConfigWith({"Name"}, UserValue)
    /\ GlobalObject.Name = UserValue("Name")
    /\ GlobalObject.LogDir = GlobalValue("LogDir")
    /\ GlobalObject.TcpPort = GlobalValue("TcpPort")
    /\ GlobalObject.LogIsolationLevel = 0

\* C19: UserConfToGlobal is idempotent: a second call of
\* UserConfToGlobal(config) right after the first, with the same config,
\* leaves the global configuration (and the logger's level and file) as
\* the first call left it.
C19_Idempotent ==
    [][(pcConf = "done" /\ pcConf' = "twice") =>
          /\ GlobalObject' = GlobalObject
          /\ glogLevel' = glogLevel
          /\ glogFile' = glogFile]_vars

\* The second call has returned, for a config whose first call changed the
\* global configuration: MaxConn and LogFile are the user's, the stream
\* mode was turned off, and fields the user left unset hold the global
\* values from before.
C19_Witness ==
    /\ pcConf = "twice"
    /\ userConf = ConfigWith({"MaxConn", "LogFile"}, UserValue)
    /\ GlobalObject.MaxConn = UserValue("MaxConn")
    /\ GlobalObject.LogFile = UserValue("LogFile")
    /\ GlobalObject.KcpStreamMode = FALSE
    /\ GlobalObject.Host = GlobalValue("Host")
    /\ glogFile = <<GlobalValue("LogDir"), UserValue("LogFile")>>

=============================================================================
